---- MODULE Spec2Model ----
(***************************************************************************)
(* Catalog aggregation and rating normalization engine.                    *)
(*                                                                         *)
(* Conventions of the model                                                *)
(*  - A JavaScript string is a sequence of one-character strings.          *)
(*  - A JavaScript number is a fixed-point integer in hundredths           *)
(*    (8.6 is 860, a view count of 5000 is 500000); arithmetic is exact.   *)
(*  - A JavaScript value that may be a number is a record [t, v] with      *)
(*    t = "num", "nan" (the number NaN), "str" (a non-numeric value) or    *)
(*    "undef" (undefined or null, which the code never tells apart).       *)
(*  - A string length (description, poster) stands for the string; -1 is   *)
(*    an absent value.                                                     *)
(*  - An optional array or object is a record [has, v].                    *)
(***************************************************************************)
EXTENDS Integers, Sequences, FiniteSets, TLC

VARIABLES aggregated, result, pc, processed, series, seriesAfter, wa

vars == <<aggregated, result, pc, processed, series, seriesAfter, wa>>

\* ------------------------------------------------------------------------
\* JavaScript values
\* ------------------------------------------------------------------------
Num(n) == [t |-> "num", v |-> n]
Undef == [t |-> "undef", v |-> 0]
NaNValue == [t |-> "nan", v |-> 0]
StrValue == [t |-> "str", v |-> 0]

IsDefined(x) == x.t # "undef"
IsNumber(x) == x.t = "num"

Some(x) == [has |-> TRUE, v |-> x]
None == [has |-> FALSE, v |-> <<>>]

Min2(a, b) == IF a < b THEN a ELSE b
Max2(a, b) == IF a > b THEN a ELSE b

\* ------------------------------------------------------------------------
\* Characters and strings
\* ------------------------------------------------------------------------
LowerLetters == <<"a","b","c","d","e","f","g","h","i","j","k","l","m",
                  "n","o","p","q","r","s","t","u","v","w","x","y","z">>
UpperLetters == <<"A","B","C","D","E","F","G","H","I","J","K","L","M",
                  "N","O","P","Q","R","S","T","U","V","W","X","Y","Z">>
DigitChars == {"0","1","2","3","4","5","6","7","8","9"}
SpaceChars == {" ", "\t"}

IsUpper(c) == \E i \in 1..26 : UpperLetters[i] = c
IsLower(c) == \E i \in 1..26 : LowerLetters[i] = c

toLowerChar(c) ==
  IF IsUpper(c) THEN LowerLetters[CHOOSE i \in 1..26 : UpperLetters[i] = c] ELSE c
toUpperChar(c) ==
  IF IsLower(c) THEN UpperLetters[CHOOSE i \in 1..26 : LowerLetters[i] = c] ELSE c

toLowerCase(s) == [i \in 1..Len(s) |-> toLowerChar(s[i])]
toUpperCase(s) == [i \in 1..Len(s) |-> toUpperChar(s[i])]

\* \w and \s of the regular expressions
IsWordChar(c) == IsUpper(c) \/ IsLower(c) \/ c \in DigitChars \/ c = "_"
IsSpace(c) == c \in SpaceChars

Drop(s, n) == SubSeq(s, n + 1, Len(s))
StartsWith(s, p) == Len(s) >= Len(p) /\ SubSeq(s, 1, Len(p)) = p
AllDigits(s) == \A i \in 1..Len(s) : s[i] \in DigitChars

RECURSIVE trimStart(_)
trimStart(s) == IF s # <<>> /\ IsSpace(Head(s)) THEN trimStart(Tail(s)) ELSE s
RECURSIVE trimEnd(_)
trimEnd(s) ==
  IF s # <<>> /\ IsSpace(s[Len(s)]) THEN trimEnd(SubSeq(s, 1, Len(s) - 1)) ELSE s
trim(s) == trimEnd(trimStart(s))

\* .replace(/[^\w\s-]/g, '')
stripSpecial(s) == SelectSeq(s, LAMBDA c : IsWordChar(c) \/ IsSpace(c) \/ c = "-")

\* .replace(/\s+/g, ' ')
RECURSIVE collapseSpaces(_)
collapseSpaces(s) ==
  IF s = <<>> THEN <<>>
  ELSE IF IsSpace(Head(s)) THEN <<" ">> \o collapseSpaces(trimStart(s))
  ELSE <<Head(s)>> \o collapseSpaces(Tail(s))

Articles == << <<"t","h","e">>, <<"a">>, <<"a","n">> >>

\* .replace(/^(the|a|an)\s+/i, '') on a string whose whitespace runs are
\* single spaces: the first alternative that is followed by a space wins.
stripArticle(s) ==
  LET hits == {k \in 1..Len(Articles) : StartsWith(s, Articles[k] \o <<" ">>)}
  IN IF hits = {} THEN s
     ELSE LET k == CHOOSE x \in hits : \A y \in hits : x <= y
          IN Drop(s, Len(Articles[k]) + 1)

Markers == { <<"e","p","i","s","o","d","e">>, <<"e","p">>,
             <<"s","e","r","i","e","s">>, <<"s","e","a","s","o","n">>, <<"s">> }

\* the tail after the marker: \s*\d*$
IsMarkerTail(r) == AllDigits(r) \/ (r # <<>> /\ r[1] = " " /\ AllDigits(Tail(r)))

\* .replace(/\s+(episode|ep|series|season|s)\s*\d*$/i, ''): leftmost match
stripMarker(s) ==
  LET starts == {i \in 1..Len(s) :
                   /\ s[i] = " "
                   /\ \E kw \in Markers :
                        /\ StartsWith(Drop(s, i), kw)
                        /\ IsMarkerTail(Drop(s, i + Len(kw)))}
  IN IF starts = {} THEN s
     ELSE SubSeq(s, 1, (CHOOSE i \in starts : \A j \in starts : i <= j) - 1)

normalizeName(name) ==
  IF name = <<>> THEN <<>>
  ELSE stripMarker(stripArticle(collapseSpaces(stripSpecial(trim(toLowerCase(name))))))

\* ------------------------------------------------------------------------
\* Similarity
\* ------------------------------------------------------------------------
Min3(a, b, c) == Min2(a, Min2(b, c))

\* one row of the matrix: row[i + 1] is matrix[j][i]
RECURSIVE levRow(_, _, _, _)
levRow(a, bj, prev, acc) ==
  LET i == Len(acc)
  IN IF i > Len(a) THEN acc
     ELSE levRow(a, bj, prev,
                 Append(acc, Min3(acc[i] + 1,
                                  prev[i + 1] + 1,
                                  prev[i] + (IF a[i] = bj THEN 0 ELSE 1))))

RECURSIVE levRows(_, _, _, _)
levRows(a, b, j, prev) ==
  IF j > Len(b) THEN prev[Len(a) + 1]
  ELSE LET row == levRow(a, b[j], prev, <<j>>)
       \* row j is filled before row j + 1 is started
       IN CASE Len(row) = Len(a) + 1 -> levRows(a, b, j + 1, row)

levenshteinDistance(a, b) == levRows(a, b, 1, [i \in 1..(Len(a) + 1) |-> i - 1])

\* faulty variant: the ratio is taken over the first string
similarityOverFirst(a, b) ==
  LET longer == IF Len(a) > Len(b) THEN a ELSE b
      shorter == IF Len(a) > Len(b) THEN b ELSE a
  IN IF Len(longer) = 0 THEN [num |-> 1, den |-> 1]
     ELSE [num |-> Len(a) - levenshteinDistance(longer, shorter), den |-> Len(a)]

\* faulty variant: the ratio is taken over the shorter string
similarityOverShorter(a, b) ==
  LET longer == IF Len(a) > Len(b) THEN a ELSE b
      shorter == IF Len(a) > Len(b) THEN b ELSE a
  IN IF Len(longer) = 0 THEN [num |-> 1, den |-> 1]
     ELSE [num |-> Len(shorter) - levenshteinDistance(longer, shorter),
           den |-> Len(shorter)]

\* the ratio (longer.length - editDistance) / longer.length as num / den
similarity(a, b) ==
  LET longer == IF Len(a) > Len(b) THEN a ELSE b
      shorter == IF Len(a) > Len(b) THEN b ELSE a
  IN IF Len(longer) = 0 THEN [num |-> 1, den |-> 1]
     ELSE [num |-> Len(longer) - levenshteinDistance(longer, shorter),
           den |-> Len(longer)]

\* faulty variant: score > 0.90
AboveThreshold(score) == score.num * 100 > 90 * score.den

\* score >= 0.90
AtLeastThreshold(score) == score.num * 100 >= 90 * score.den

isDuplicate(series1, series2) ==
  LET name1 == normalizeName(series1.name)
      name2 == normalizeName(series2.name)
  IN IF name1 = name2 THEN TRUE
     ELSE AtLeastThreshold(similarity(name1, name2))

\* ------------------------------------------------------------------------
\* Rating normalizer
\* ------------------------------------------------------------------------
VIEW_THRESHOLD == 100000
DEFAULT_RATING == 600
VIEWS_maxValue == 700
HMM_WEIGHT == 5
OTHER_WEIGHT == 1
TRENDING_CAP == 750
RATING_MAX == 1000

\* The smallest views + 1 (in hundredths) for which
\* Math.round(Math.log10(views + 1) * 1.5 * 10) reaches 46, 47, ..., 70:
\* ceil(100 * 10^((k - 0.5) / 15)).
ViewSteps == <<107978, 125893, 146780, 171133, 199527, 232631, 271228, 316228,
               368695, 429867, 501188, 584342, 681293, 794329, 926119, 1079776,
               1258926, 1467800, 1711329, 1995263, 2326306, 2712273, 3162278,
               3686946, 4298663>>

\* Math.round(Math.min(7.0, Math.log10(views + 1) * 1.5) * 10) / 10 for
\* views >= 1000, where the value before rounding is at least 4.5
viewLogRating(views) ==
  Min2(VIEWS_maxValue,
       10 * (45 + Cardinality({k \in 1..Len(ViewSteps) : views + 100 >= ViewSteps[k]})))

\* faulty variant: no upper clamp
normalizeDirectRatingNoCeiling(rating) ==
  IF ~IsNumber(rating) THEN Undef
  ELSE Num(Max2(0, rating.v))

\* faulty variant: no lower clamp
normalizeDirectRatingNoFloor(rating) ==
  IF ~IsNumber(rating) THEN Undef
  ELSE Num(Min2(RATING_MAX, rating.v))

normalizeDirectRating(rating) ==
  IF ~IsNumber(rating) THEN Undef
  ELSE Num(Max2(0, Min2(RATING_MAX, rating.v)))

\* faulty variant: the threshold is not applied
normalizeViewCountNoThreshold(views) ==
  IF ~IsNumber(views) \/ views.v < 0 THEN Undef
  ELSE Num(viewLogRating(views.v))

normalizeViewCount(views) ==
  IF ~IsNumber(views) \/ views.v < 0 THEN Undef
  ELSE IF views.v < VIEW_THRESHOLD THEN Undef
  ELSE Num(viewLogRating(views.v))

\* Math.min(cap, x): null converts to 0
MathMinWith(cap, x) == IF IsNumber(x) THEN Num(Min2(cap, x.v)) ELSE Num(0)

normalizeRating(value, type) ==
  CASE type = "direct" -> normalizeDirectRating(value)
    [] type = "views" -> normalizeViewCount(value)
    [] type = "trending" ->
         IF ~IsNumber(value) THEN Undef
         ELSE MathMinWith(TRENDING_CAP, normalizeDirectRating(value))
    [] type = "percentage" ->
         IF ~IsNumber(value) THEN Undef
         ELSE Num(Max2(0, Min2(RATING_MAX, value.v \div 10)))
    [] type = "stars" ->
         IF ~IsNumber(value) THEN Undef
         ELSE Num(Max2(0, Min2(RATING_MAX, value.v * 2)))
    [] OTHER -> normalizeDirectRating(value)

\* A breakdown entry: nul is a null entry; type "" is an absent type.
Entry(raw, type) == [nul |-> FALSE, raw |-> raw, normalized |-> Undef, type |-> type]
NullEntry == [nul |-> TRUE, raw |-> Undef, normalized |-> Undef, type |-> ""]

TypeOrDirect(type) == IF type = "" THEN "direct" ELSE type

\* faulty variant: hmm counts twice, as the function's comment has it
providerWeightDoubled(provider) == IF provider = "hmm" THEN 2 ELSE OTHER_WEIGHT

\* CONFIG.PROVIDER_WEIGHTS[provider] || 1.0
providerWeight(provider) == IF provider = "hmm" THEN HMM_WEIGHT ELSE OTHER_WEIGHT

\* the loop body of calculateWeightedAverage up to "Skip if normalization
\* failed": the normalized value of one entry, Undef when it is skipped
resolveEntry(ratingInfo) ==
  IF ratingInfo.nul THEN Undef
  ELSE IF IsDefined(ratingInfo.normalized) THEN ratingInfo.normalized
  ELSE IF ~IsDefined(ratingInfo.raw) THEN Undef
  ELSE LET type == TypeOrDirect(ratingInfo.type)
       IN CASE type = "views" -> normalizeViewCount(ratingInfo.raw)
            [] type = "trending" ->
                 MathMinWith(TRENDING_CAP, normalizeDirectRating(ratingInfo.raw))
            [] OTHER -> normalizeDirectRating(ratingInfo.raw)

usableProviders(ratingBreakdown) ==
  {p \in DOMAIN ratingBreakdown : IsDefined(resolveEntry(ratingBreakdown[p]))}

RECURSIVE SumOver(_, _)
SumOver(f, S) ==
  IF S = {} THEN 0
  ELSE LET x == CHOOSE y \in S : TRUE IN f[x] + SumOver(f, S \ {x})

totalWeightOf(ratingBreakdown) ==
  LET U == usableProviders(ratingBreakdown)
  IN SumOver([p \in U |-> providerWeight(p)], U)

weightedSumOf(ratingBreakdown) ==
  LET U == usableProviders(ratingBreakdown)
  IN SumOver([p \in U |-> resolveEntry(ratingBreakdown[p]).v * providerWeight(p)], U)

\* Math.round(average * 10) / 10 with average = weightedSum / totalWeight
roundAverage(weightedSum, totalWeight) ==
  10 * ((weightedSum + 5 * totalWeight) \div (10 * totalWeight))

\* faulty variant: the default is returned unless hmm has a rating
calculateWeightedAverageNeedsHmm(ratingBreakdown) ==
  IF "hmm" \notin usableProviders(ratingBreakdown) THEN DEFAULT_RATING
  ELSE roundAverage(weightedSumOf(ratingBreakdown), totalWeightOf(ratingBreakdown))

calculateWeightedAverage(ratingBreakdown) ==
  LET totalWeight == totalWeightOf(ratingBreakdown)
      weightedSum == weightedSumOf(ratingBreakdown)
  IN IF totalWeight = 0 THEN DEFAULT_RATING
     ELSE roundAverage(weightedSum, totalWeight)

\* the entry calculateAverageRating copies into normalizedBreakdown
\* (Undef in normalized: the entry is left out)
averageEntry(data) ==
  LET type == TypeOrDirect(data.type)
      normalized == IF type = "views" THEN normalizeViewCount(data.raw)
                    ELSE normalizeDirectRating(data.raw)
  IN [nul |-> FALSE, raw |-> data.raw, normalized |-> normalized, type |-> type]

calculateAverageRating(ratingBreakdown) ==
  LET kept == {p \in DOMAIN ratingBreakdown :
                 /\ ~ratingBreakdown[p].nul
                 /\ IsDefined(averageEntry(ratingBreakdown[p]).normalized)}
      normalizedBreakdown == [p \in kept |-> averageEntry(ratingBreakdown[p])]
  IN calculateWeightedAverage(normalizedBreakdown)

\* ------------------------------------------------------------------------
\* Series records
\* ------------------------------------------------------------------------
\* An id is <prefix>-<slug>; prefix "" is an id that does not start with
\* lower-case letters and a hyphen, and then slug is the whole id.
\* faulty variant: no fallback for an id without a prefix
getPrefixFromIdNoFallback(id) == id.prefix

getPrefixFromId(id) == IF id.prefix = "" THEN "unknown" ELSE id.prefix

\* id.replace(`${prefix}-`, '')
slugOf(id) == id.slug

\* Object.assign(target, source)
ObjectAssign(target, source) ==
  [k \in (DOMAIN target) \cup (DOMAIN source) |->
     IF k \in DOMAIN source THEN source[k] ELSE target[k]]

\* obj[key] = value
SetKey(obj, key, value) ==
  [k \in (DOMAIN obj) \cup {key} |-> IF k = key THEN value ELSE obj[k]]

EmptyObject == [k \in {} |-> NullEntry]

Includes(seq, x) == \E i \in 1..Len(seq) : seq[i] = x

\* !obj[key]
LacksEntry(obj, key) == key \notin DOMAIN obj \/ obj[key].nul

\* ------------------------------------------------------------------------
\* Metadata score
\* ------------------------------------------------------------------------
DESC_MIN == 20
DESC_LONG == 100
DESC_LONGER == 200
GENRE_CAP == 5
POSTER_MIN == 10

descriptionScore(description) ==
  IF description > DESC_MIN
  THEN 3 + (IF description > DESC_LONG THEN 1 ELSE 0)
         + (IF description > DESC_LONGER THEN 1 ELSE 0)
  ELSE 0

\* faulty variant: the genre points are not capped
genresScoreUncapped(genres) == IF genres.has THEN Len(genres.v) ELSE 0

genresScore(genres) == IF genres.has THEN Min2(Len(genres.v), GENRE_CAP) ELSE 0

ratingScore(rating) == IF IsNumber(rating) /\ rating.v > 0 THEN 1 ELSE 0

calculateMetadataScore(s) ==
  descriptionScore(s.description)
  + genresScore(s.genres)
  + (IF s.poster > POSTER_MIN THEN 2 ELSE 0)
  + (IF s.year > 0 THEN 1 ELSE 0)
  + ratingScore(s.rating)

\* ------------------------------------------------------------------------
\* Merge
\* ------------------------------------------------------------------------
\* g.toLowerCase() !== studioName.toLowerCase()
filterStudio(genres, studioName) ==
  SelectSeq(genres, LAMBDA g : toLowerCase(g) # toLowerCase(studioName))

\* [...new Set(list)]
RECURSIVE dedupe(_)
dedupe(list) ==
  IF list = <<>> THEN <<>>
  ELSE LET init == dedupe(SubSeq(list, 1, Len(list) - 1))
           last == list[Len(list)]
       IN IF Includes(init, last) THEN init ELSE Append(init, last)

\* existing.providers.forEach(p => push p unless included)
RECURSIVE pushMissing(_, _)
pushMissing(target, source) ==
  IF source = <<>> THEN target
  ELSE pushMissing(IF Includes(target, Head(source)) THEN target
                   ELSE Append(target, Head(source)),
                   Tail(source))

\* absent dates are -1
getMostRecentDate(dateA, dateB) ==
  IF dateA < 0 /\ dateB < 0 THEN -1
  ELSE IF dateA < 0 THEN dateB
  ELSE IF dateB < 0 THEN dateA
  ELSE IF dateA > dateB THEN dateA ELSE dateB

\* the entry synthesized from a standalone rating, then from a view count
ratingEntryOf(s) == Entry(s.rating, TypeOrDirect(s.ratingType))
viewsEntryOf(s) == Entry(s.viewCount, "views")

\* lines 232-246: primary's own rating and view count
addPrimaryRatings(primary, primaryPrefix) ==
  LET b0 == primary.ratingBreakdown.v
      b1 == IF IsDefined(primary.rating) /\ LacksEntry(b0, primaryPrefix)
            THEN SetKey(b0, primaryPrefix, ratingEntryOf(primary)) ELSE b0
      b2 == IF IsDefined(primary.viewCount) /\ LacksEntry(b1, primaryPrefix)
            THEN SetKey(b1, primaryPrefix, viewsEntryOf(primary)) ELSE b1
  IN b2

\* lines 248-262: the secondary's ratingBreakdown after its own rating and
\* view count were written into it (the secondary object is mutated)
secondaryBreakdown(secondary, secondaryPrefix) ==
  LET s0 == secondary.ratingBreakdown
      s1 == IF IsDefined(secondary.rating)
            THEN Some(SetKey(IF s0.has THEN s0.v ELSE EmptyObject,
                             secondaryPrefix, ratingEntryOf(secondary)))
            ELSE s0
      s2 == IF IsDefined(secondary.viewCount)
            THEN Some(SetKey(IF s1.has THEN s1.v ELSE EmptyObject,
                             secondaryPrefix, viewsEntryOf(secondary)))
            ELSE s1
  IN s2

\* lines 288-298
mergeGenres(primary, secondary) ==
  IF secondary.genres.has
  THEN LET allGenres == (IF primary.genres.has THEN primary.genres.v ELSE <<>>)
                          \o secondary.genres.v
           studioName == IF primary.studio # <<>> THEN primary.studio
                         ELSE secondary.studio
           filteredGenres == IF studioName # <<>>
                             THEN filterStudio(allGenres, studioName)
                             ELSE allGenres
       IN Some(dedupe(filteredGenres))
  ELSE primary.genres

\* lines 300-310
mergeStudio(primary, secondary) ==
  IF primary.studio = <<>> /\ secondary.studio # <<>> THEN secondary.studio
  ELSE IF primary.studio # <<>> /\ secondary.studio # <<>>
  THEN LET primaryAllCaps == primary.studio = toUpperCase(primary.studio)
           secondaryAllCaps == secondary.studio = toUpperCase(secondary.studio)
       IN IF primaryAllCaps /\ ~secondaryAllCaps THEN secondary.studio
          ELSE primary.studio
  ELSE primary.studio

\* lines 283-286
mergeDescription(primary, secondary) ==
  IF primary.description <= 0
     \/ (secondary.description > 0 /\ secondary.description > primary.description)
  THEN secondary.description
  ELSE primary.description

\* faulty variant: the new series becomes primary on a tie as well
swapsPrimaryOnTie(existing, newSeries) ==
  calculateMetadataScore(newSeries) >= calculateMetadataScore(existing)

\* lines 199-209: the new series becomes primary on a strictly higher score
swapsPrimary(existing, newSeries) ==
  calculateMetadataScore(newSeries) > calculateMetadataScore(existing)

\* mergeSeries(existing, newSeries): merged is the returned primary,
\* newAfter is the newSeries object as the call leaves it.
mergeSeries(existing, newSeries) ==
  LET swap == swapsPrimary(existing, newSeries)
      primary0 == IF swap THEN newSeries ELSE existing
      secondary == IF swap THEN existing ELSE newSeries
      primaryPrefix == getPrefixFromId(primary0.id)
      secondaryPrefix == getPrefixFromId(secondary.id)
      \* lines 214-217
      providers0 == IF primary0.providers.has THEN primary0.providers.v
                    ELSE <<primaryPrefix>>
      slugs0 == IF primary0.providerSlugs.has THEN primary0.providerSlugs.v
                ELSE (primaryPrefix :> slugOf(primary0.id))
      breakdown0 == IF primary0.ratingBreakdown.has THEN primary0.ratingBreakdown.v
                    ELSE EmptyObject
      \* lines 219-230
      providers1 == IF existing.providers.has
                    THEN pushMissing(providers0, existing.providers.v)
                    ELSE providers0
      slugs1 == IF existing.providerSlugs.has
                THEN ObjectAssign(slugs0, existing.providerSlugs.v) ELSE slugs0
      breakdown1 == IF existing.ratingBreakdown.has
                    THEN ObjectAssign(breakdown0, existing.ratingBreakdown.v)
                    ELSE breakdown0
      \* lines 232-246
      breakdown2 == addPrimaryRatings(
                      [primary0 EXCEPT !.ratingBreakdown = Some(breakdown1)],
                      primaryPrefix)
      \* lines 248-267
      secondaryBd == secondaryBreakdown(secondary, secondaryPrefix)
      breakdown3 == IF secondaryBd.has THEN ObjectAssign(breakdown2, secondaryBd.v)
                    ELSE breakdown2
      \* lines 269-273
      providers2 == IF Includes(providers1, secondaryPrefix) THEN providers1
                    ELSE Append(providers1, secondaryPrefix)
      slugs2 == SetKey(slugs1, secondaryPrefix, slugOf(secondary.id))
      merged0 == [primary0 EXCEPT
                    !.providers = Some(providers2),
                    !.providerSlugs = Some(slugs2),
                    !.ratingBreakdown = Some(breakdown3),
                    !.rating = Num(calculateAverageRating(breakdown3)),
                    !.poster = IF primary0.poster <= 0 /\ secondary.poster > 0
                               THEN secondary.poster ELSE primary0.poster,
                    !.description = mergeDescription(primary0, secondary),
                    !.genres = mergeGenres(primary0, secondary),
                    !.studio = mergeStudio(primary0, secondary),
                    !.lastUpdated = getMostRecentDate(primary0.lastUpdated,
                                                      secondary.lastUpdated)]
      merged == [merged0 EXCEPT !.metadataScore = calculateMetadataScore(merged0)]
      \* the newSeries object afterwards: as secondary it received the
      \* breakdown written at lines 248-262; as primary it was copied, and
      \* the copy shares the arrays and objects newSeries already had
      newAfter ==
        IF swap
        THEN [newSeries EXCEPT
                !.providers = IF newSeries.providers.has
                              THEN merged.providers ELSE @,
                !.providerSlugs = IF newSeries.providerSlugs.has
                                  THEN merged.providerSlugs ELSE @,
                !.ratingBreakdown = IF newSeries.ratingBreakdown.has
                                    THEN merged.ratingBreakdown ELSE @]
        ELSE [newSeries EXCEPT !.ratingBreakdown = secondaryBd]
  IN [merged |-> merged, newAfter |-> newAfter]

\* ------------------------------------------------------------------------
\* Titles of the provider catalogs
\* ------------------------------------------------------------------------
NameX == <<"M","a","i","d"," ","H","e","a","v","e","n">>
NameXArticle == <<"T","h","e"," ","M","a","i","d"," ","H","e","a","v","e","n","!">>
NameZ == <<"M","a","i","d"," ","H","e","a","v","e","n","s">>
NameY == <<"M","a","d"," ","H","e","a","v","e","n","s">>
NameFoo == <<"F","o","o">>

Names == <<NameX, NameXArticle, NameZ, NameY, NameFoo>>
Slugs == <<"maid-heaven", "the-maid-heaven", "maid-heavens", "mad-heavens", "foo">>

\* isDuplicate tabulated over the titles (a record's name is always one of
\* them: names are copied, never edited)
duplicateTable ==
  [a \in {Names[n] : n \in 1..Len(Names)} |->
     [b \in {Names[n] : n \in 1..Len(Names)} |->
        isDuplicate([name |-> a], [name |-> b])]]

\* ------------------------------------------------------------------------
\* Aggregation
\* ------------------------------------------------------------------------
\* faulty variant: the last match wins
findLastDuplicateIndex(acc, s) ==
  LET hits == {i \in 1..Len(acc) : duplicateTable[acc[i].name][s.name]}
  IN IF hits = {} THEN 0 ELSE CHOOSE i \in hits : \A j \in hits : i >= j

\* aggregated.findIndex(s => isDuplicate(s, series)); 0 when none matches
findDuplicateIndex(acc, s) ==
  LET hits == {i \in 1..Len(acc) : duplicateTable[acc[i].name][s.name]}
  IN IF hits = {} THEN 0 ELSE CHOOSE i \in hits : \A j \in hits : i <= j

\* lines 352-364
seedBreakdown(s, prefix) ==
  IF IsDefined(s.rating) THEN SetKey(EmptyObject, prefix, ratingEntryOf(s))
  ELSE IF IsDefined(s.viewCount) THEN SetKey(EmptyObject, prefix, viewsEntryOf(s))
  ELSE EmptyObject

\* lines 366-372
seedGenres(s) ==
  IF s.studio # <<>> /\ s.genres.has THEN Some(filterStudio(s.genres.v, s.studio))
  ELSE s.genres

\* lines 374-386: the accumulator entry made of a series seen for the first time
seedSeries(s) ==
  LET prefix == getPrefixFromId(s.id)
      ratingBreakdown == seedBreakdown(s, prefix)
  IN [s EXCEPT
        !.genres = seedGenres(s),
        !.providers = Some(<<prefix>>),
        !.providerSlugs = Some(prefix :> slugOf(s.id)),
        !.ratingBreakdown = Some(ratingBreakdown),
        !.metadataScore = calculateMetadataScore(s),
        !.rating = Num(calculateAverageRating(ratingBreakdown))]

\* The collation order of the characters the titles use: white space, then
\* punctuation, then digits, then letters; case is a tie-break only.
CollationChars == <<"\t", " ", "_", "-", "!", "?",
                    "0","1","2","3","4","5","6","7","8","9">> \o LowerLetters

primaryRank(c) ==
  LET l == toLowerChar(c)
      at == {i \in 1..Len(CollationChars) : CollationChars[i] = l}
  IN IF at = {} THEN 0 ELSE CHOOSE i \in at : TRUE

RECURSIVE comparePrimary(_, _)
comparePrimary(a, b) ==
  IF a = <<>> /\ b = <<>> THEN 0
  ELSE IF a = <<>> THEN -1
  ELSE IF b = <<>> THEN 1
  ELSE IF primaryRank(Head(a)) < primaryRank(Head(b)) THEN -1
  ELSE IF primaryRank(Head(a)) > primaryRank(Head(b)) THEN 1
  ELSE comparePrimary(Tail(a), Tail(b))

\* lower case sorts before upper case where the strings first differ
RECURSIVE compareCase(_, _)
compareCase(a, b) ==
  IF a = <<>> \/ b = <<>> THEN 0
  ELSE IF Head(a) = Head(b) THEN compareCase(Tail(a), Tail(b))
  ELSE IF IsLower(Head(a)) THEN -1 ELSE 1

\* a.localeCompare(b)
localeCompare(a, b) ==
  LET first == comparePrimary(a, b)
  IN IF first # 0 THEN first ELSE compareCase(a, b)

\* b.providers?.length || 1
providerCount(s) ==
  IF s.providers.has /\ Len(s.providers.v) > 0 THEN Len(s.providers.v) ELSE 1

\* b.metadataScore || 0
scoreOrZero(s) == IF s.metadataScore > 0 THEN s.metadataScore ELSE 0

\* faulty variant: the provider count is left out of the comparison
compareSeriesWithoutProviders(a, b) ==
  LET scoreDiff == scoreOrZero(b) - scoreOrZero(a)
  IN IF scoreDiff # 0 THEN scoreDiff ELSE localeCompare(a.name, b.name)

\* the comparator of lines 394-405
compareSeries(a, b) ==
  LET scoreDiff == scoreOrZero(b) - scoreOrZero(a)
      providerDiff == providerCount(b) - providerCount(a)
  IN IF scoreDiff # 0 THEN scoreDiff
     ELSE IF providerDiff # 0 THEN providerDiff
     ELSE localeCompare(a.name, b.name)

\* Array.prototype.sort is stable: x goes after every element that does not
\* sort after it
RECURSIVE insertSorted(_, _)
insertSorted(list, x) ==
  IF list = <<>> THEN <<x>>
  ELSE IF compareSeries(Head(list), x) <= 0
  THEN <<Head(list)>> \o insertSorted(Tail(list), x)
  ELSE <<x>> \o list

RECURSIVE sortCatalog(_)
sortCatalog(list) ==
  IF list = <<>> THEN <<>>
  ELSE insertSorted(sortCatalog(SubSeq(list, 1, Len(list) - 1)), list[Len(list)])

\* ------------------------------------------------------------------------
\* Provider catalogs
\* ------------------------------------------------------------------------
MaxRecords == 3

Romance == <<"R","o","m","a","n","c","e">>
Drama == <<"D","r","a","m","a">>
StudioX == <<"S","t","u","d","i","o","X">>

\* what a scraper returns for one title: no aggregation fields yet
Scraped(prefix, n, rating, ratingType, viewCount, description, poster, studio, genres, year, lastUpdated) ==
  [id |-> [prefix |-> prefix, slug |-> Slugs[n]],
   name |-> Names[n],
   rating |-> rating, ratingType |-> ratingType, viewCount |-> viewCount,
   description |-> description, poster |-> poster, studio |-> studio,
   genres |-> genres, year |-> year, lastUpdated |-> lastUpdated,
   providers |-> None, providerSlugs |-> None, ratingBreakdown |-> None,
   metadataScore |-> -1]

\* a directly rated title whose genres repeat its studio
ProfileDirect(n) ==
  Scraped("hmm", n, Num(860), "direct", Undef, -1, -1, StudioX,
          Some(<<Romance, StudioX>>), -1, -1)
\* a title known by its view count only
ProfileViews(n) ==
  Scraped("hse", n, Undef, "", Num(500000), -1, -1, <<>>, None, -1, -1)
\* an unrated title with rich metadata
ProfileRich(n) ==
  Scraped("hse", n, Undef, "", Undef, 150, 30, <<>>, Some(<<Drama>>), 2020, 2)
\* a trending position
ProfileTrending(n) ==
  Scraped("htv", n, Num(900), "trending", Undef, -1, -1, <<>>,
          Some(<<Romance>>), -1, -1)
\* a percentage rating
ProfilePercentage(n) ==
  Scraped("htv", n, Num(8500), "percentage", Undef, -1, 30, <<>>, None, -1, 1)
InputRecords ==
  UNION {{ProfileDirect(n), ProfileViews(n), ProfileRich(n), ProfileTrending(n),
          ProfilePercentage(n)} : n \in 1..Len(Names)}

NoSeries == Scraped("", 1, Undef, "", Undef, -1, -1, <<>>, None, -1, -1)

\* ------------------------------------------------------------------------
\* aggregateCatalogs as a state machine
\*   aggregated   the accumulator, in discovery order
\*   result       the returned list (the accumulator after the sort)
\*   pc           "loop" while series are consumed, "done" after the return
\*   processed    the number of series consumed
\*   series       the series consumed last, as it was handed in
\*   seriesAfter  the same object as the loop body leaves it
\*   wa           unused here (see the rating specifications)
\* ------------------------------------------------------------------------
WaIdle == [breakdown |-> EmptyObject, out |-> -1]

Init ==
  /\ aggregated = <<>>
  /\ result = <<>>
  /\ pc = "loop"
  /\ processed = 0
  /\ series = NoSeries
  /\ seriesAfter = NoSeries
  /\ wa = WaIdle

\* one iteration of the loop of lines 335-390: the accumulator and the
\* consumed object afterwards
loopBody(acc, s) ==
  LET existingIndex == findDuplicateIndex(acc, s)
  IN IF existingIndex > 0
     THEN LET m == mergeSeries(acc[existingIndex], s)
          IN [acc |-> [acc EXCEPT ![existingIndex] = m.merged], after |-> m.newAfter]
     ELSE [acc |-> Append(acc, seedSeries(s)), after |-> s]

\* the loop consumes s, unless limit series were consumed already
Consume(s, limit) ==
  /\ pc = "loop"
  /\ processed < limit
  /\ LET step == loopBody(aggregated, s)
     IN /\ aggregated' = step.acc
        /\ seriesAfter' = step.after
  /\ series' = s
  /\ processed' = processed + 1
  /\ UNCHANGED <<result, pc, wa>>

ProcessSeries(s) == Consume(s, MaxRecords)

\* lines 393-410: sort and return
SortAndReturn ==
  /\ pc = "loop"
  /\ result' = sortCatalog(aggregated)
  /\ pc' = "done"
  /\ UNCHANGED <<aggregated, processed, series, seriesAfter, wa>>

Next ==
  \/ \E s \in InputRecords : ProcessSeries(s)
  \/ SortAndReturn

Spec == Init /\ [][Next]_vars

\* ------------------------------------------------------------------------
\* aggregateCatalogs over longer catalogs of fewer titles: the three titles
\* that form a chain of near-duplicates, so that after four series the
\* accumulator can hold two records that tie on every key of the sort
\* ------------------------------------------------------------------------
MaxTieRecords == 4

TieRecords ==
  UNION {{ProfileDirect(n), ProfileViews(n), ProfileRich(n), ProfileTrending(n)} :
           n \in {1, 3, 4}}

ProcessTieSeries(s) == Consume(s, MaxTieRecords)

NextTies ==
  \/ \E s \in TieRecords : ProcessTieSeries(s)
  \/ SortAndReturn

SpecTies == Init /\ [][NextTies]_vars

\* ------------------------------------------------------------------------
\* aggregateCatalogs over the chain of near-duplicate titles, with records
\* whose id does not start with a provider prefix
\* ------------------------------------------------------------------------
MaxProviderRecords == 3

\* a title with rich metadata whose id has no provider prefix
UnprefixedIds == <<"maidheaven", "themaidheaven", "maidheavens", "madheavens", "foo">>

ProfileUnprefixed(n) ==
  [Scraped("", n, Undef, "", Undef, 150, 30, <<>>, Some(<<Drama>>), 2020, 2)
     EXCEPT !.id = [prefix |-> "", slug |-> UnprefixedIds[n]]]

ProviderRecords == TieRecords \cup {ProfileUnprefixed(1), ProfileUnprefixed(4)}

ProcessProviderSeries(s) == Consume(s, MaxProviderRecords)

NextProviders ==
  \/ \E s \in ProviderRecords : ProcessProviderSeries(s)
  \/ SortAndReturn

SpecProviders == Init /\ [][NextProviders]_vars

\* ------------------------------------------------------------------------
\* aggregateCatalogs over catalogs that vary the rating fields: one title
\* from hmm and htv with every shape of rating and view count, and a second
\* title that is not merged with it
\* ------------------------------------------------------------------------
MaxRatedRecords == 3

\* <<rating, ratingType, viewCount>>
RatingFields ==
  {<<Undef, "", Undef>>, <<NaNValue, "", Undef>>, <<StrValue, "direct", Undef>>,
   <<Num(-100), "direct", Undef>>, <<Num(1100), "", Undef>>,
   <<Num(8500), "percentage", Undef>>, <<Num(900), "trending", Undef>>,
   <<Undef, "", Num(99900)>>, <<Undef, "", Num(100000000)>>,
   <<Undef, "", NaNValue>>, <<Num(860), "direct", Num(500000)>>}

RatedRecords ==
  {Scraped(prefix, 1, f[1], f[2], f[3], -1, -1, <<>>, None, -1, -1) :
     prefix \in {"hmm", "htv"}, f \in RatingFields}
    \cup {Scraped("hse", 5, f[1], f[2], f[3], -1, -1, <<>>, None, -1, -1) :
            f \in {<<Num(-100), "direct", Undef>>, <<Undef, "", Num(500000)>>}}

ProcessRatedSeries(s) == Consume(s, MaxRatedRecords)

NextRatings ==
  \/ \E s \in RatedRecords : ProcessRatedSeries(s)
  \/ SortAndReturn

SpecRatings == Init /\ [][NextRatings]_vars

\* ------------------------------------------------------------------------
\* aggregateCatalogs provider by provider: each step consumes the whole
\* catalog of one provider, which may be empty
\*   processed     the number of provider catalogs consumed
\*   wa.catalogs   the catalogs consumed so far, in order
\* ------------------------------------------------------------------------
MaxCatalogs == 3

\* faulty variant: an empty catalog clears the accumulator
RECURSIVE processCatalogClearing(_, _)
processCatalogClearing(acc, catalog) ==
  IF catalog = <<>> THEN <<>>
  ELSE IF Len(catalog) = 1 THEN loopBody(acc, Head(catalog)).acc
  ELSE processCatalogClearing(loopBody(acc, Head(catalog)).acc, Tail(catalog))

\* lines 335-390: the inner loop over one catalog
RECURSIVE processCatalog(_, _)
processCatalog(acc, catalog) ==
  IF catalog = <<>> THEN acc
  ELSE processCatalog(loopBody(acc, Head(catalog)).acc, Tail(catalog))

CatalogRecords == {ProfileDirect(1), ProfileRich(1), ProfileTrending(4)}

CatalogInputs ==
  {<<>>} \cup {<<r>> : r \in CatalogRecords}
         \cup {<<r1, r2>> : r1 \in CatalogRecords, r2 \in CatalogRecords}

InitCatalogs ==
  /\ aggregated = <<>>
  /\ result = <<>>
  /\ pc = "loop"
  /\ processed = 0
  /\ series = NoSeries
  /\ seriesAfter = NoSeries
  /\ wa = [catalogs |-> <<>>]

ProcessCatalog(catalog) ==
  /\ pc = "loop"
  /\ processed < MaxCatalogs
  /\ aggregated' = processCatalog(aggregated, catalog)
  /\ processed' = processed + 1
  /\ wa' = [wa EXCEPT !.catalogs = Append(@, catalog)]
  /\ UNCHANGED <<result, pc, series, seriesAfter>>

NextCatalogs ==
  \/ \E catalog \in CatalogInputs : ProcessCatalog(catalog)
  \/ SortAndReturn

SpecCatalogs == InitCatalogs /\ [][NextCatalogs]_vars

\* ------------------------------------------------------------------------
\* mergeSeries applied twice with the same second argument:
\* mergeSeries(mergeSeries(a, b), b)
\*   aggregated   <<a>>, then the record the last call returned
\*   result       the record the first call returned, once the second is made
\*   series       b as it was handed in; seriesAfter the object b now
\*   processed    the number of calls made
\*   wa.existing  a as it was handed to the first call
\* ------------------------------------------------------------------------
MergeRecords ==
  UNION {{ProfileDirect(n), ProfileViews(n), ProfileRich(n), ProfileTrending(n),
          ProfilePercentage(n)} : n \in {1, 2}}

\* first arguments: records as scraped and records of the accumulator
MergeTargets == MergeRecords \cup {seedSeries(r) : r \in MergeRecords}

InitMerge ==
  /\ \E a \in MergeTargets : aggregated = <<a>>
  /\ result = <<>>
  /\ pc = "merge"
  /\ processed = 0
  /\ series \in MergeRecords
  /\ seriesAfter = series
  /\ wa = [existing |-> aggregated[1]]

MergeOnce ==
  /\ pc = "merge"
  /\ processed = 0
  /\ LET m == mergeSeries(aggregated[1], seriesAfter)
     IN /\ aggregated' = <<m.merged>>
        /\ seriesAfter' = m.newAfter
  /\ processed' = 1
  /\ UNCHANGED <<result, pc, series, wa>>

MergeAgain ==
  /\ pc = "merge"
  /\ processed = 1
  /\ LET m == mergeSeries(aggregated[1], seriesAfter)
     IN /\ aggregated' = <<m.merged>>
        /\ seriesAfter' = m.newAfter
  /\ result' = aggregated
  /\ processed' = 2
  /\ UNCHANGED <<pc, series, wa>>

NextMerge == MergeOnce \/ MergeAgain

SpecMerge == InitMerge /\ [][NextMerge]_vars

\* ------------------------------------------------------------------------
\* isDuplicate and similarity on their own
\*   wa.a, wa.b   the two names (isDuplicate) or strings (similarity)
\*   wa.fn        the function called, "" before the call
\*   wa.out       <<the value returned>>, <<>> before the call
\* ------------------------------------------------------------------------
NameNight == <<"N","i","g","h","t"," ","T","a","l","e">>
NameNightOneEdit == <<"N","i","g","h","t"," ","T","o","l","e">>
NameNightTwoEdits == <<"L","i","g","h","t"," ","T","o","l","e">>
NameNightShort == <<"N","i","g","h","t"," ","T","a","l">>
NameNightSeason == <<"N","I","G","H","T"," "," ","T","a","l","e"," ","S","e","a","s","o","n"," ","2">>

NamePool == {<<>>, NameX, NameXArticle, NameZ, NameY, NameFoo, NameNight,
             NameNightOneEdit, NameNightTwoEdits, NameNightShort, NameNightSeason}

InitNames ==
  /\ aggregated = <<>>
  /\ result = <<>>
  /\ pc = "names"
  /\ processed = 0
  /\ series = NoSeries
  /\ seriesAfter = NoSeries
  /\ wa \in [a : NamePool, b : NamePool, fn : {""}, out : {<<>>}]

CallIsDuplicate ==
  /\ pc = "names"
  /\ wa.fn = ""
  /\ wa' = [wa EXCEPT !.fn = "isDuplicate",
                      !.out = <<isDuplicate([name |-> wa.a], [name |-> wa.b])>>]
  /\ UNCHANGED <<aggregated, result, pc, processed, series, seriesAfter>>

CallSimilarity ==
  /\ pc = "names"
  /\ wa.fn = ""
  /\ wa' = [wa EXCEPT !.fn = "similarity", !.out = <<similarity(wa.a, wa.b)>>]
  /\ UNCHANGED <<aggregated, result, pc, processed, series, seriesAfter>>

NextNames == CallIsDuplicate \/ CallSimilarity

SpecNames == InitNames /\ [][NextNames]_vars

\* ------------------------------------------------------------------------
\* normalizeRating and normalizeViewCount on their own
\*   wa.value, wa.type   the arguments (normalizeViewCount takes the value)
\*   wa.fn               the function called, "" before the call
\*   wa.out              <<the value returned>>, <<>> before the call
\* ------------------------------------------------------------------------
\* ratings, percentages, stars and view counts, in hundredths
NormalizerValues ==
  {Undef, NaNValue, StrValue} \cup
  {Num(v) : v \in {-100, 0, 350, 450, 600, 860, 1000, 1100, 8500, 12000, 99900,
                   100000, 100100, 500000, 1000000, 100000000, 1000000000}}

\* "" is an omitted type, "likes" a type the switch does not know
NormalizerTypes == {"", "direct", "views", "trending", "percentage", "stars", "likes"}

InitNormalize ==
  /\ aggregated = <<>>
  /\ result = <<>>
  /\ pc = "normalize"
  /\ processed = 0
  /\ series = NoSeries
  /\ seriesAfter = NoSeries
  /\ wa \in [value : NormalizerValues, type : NormalizerTypes, fn : {""}, out : {<<>>}]

CallNormalizeRating ==
  /\ pc = "normalize"
  /\ wa.fn = ""
  /\ wa' = [wa EXCEPT !.fn = "normalizeRating",
                      !.out = <<normalizeRating(wa.value, wa.type)>>]
  /\ UNCHANGED <<aggregated, result, pc, processed, series, seriesAfter>>

CallNormalizeViewCount ==
  /\ pc = "normalize"
  /\ wa.fn = ""
  /\ wa' = [wa EXCEPT !.fn = "normalizeViewCount",
                      !.out = <<normalizeViewCount(wa.value)>>]
  /\ UNCHANGED <<aggregated, result, pc, processed, series, seriesAfter>>

NextNormalize == CallNormalizeRating \/ CallNormalizeViewCount

SpecNormalize == InitNormalize /\ [][NextNormalize]_vars

\* ------------------------------------------------------------------------
\* calculateMetadataScore on its own
\*   series   the record scored
\*   wa.fn    the function called, "" before the call
\*   wa.out   <<the value returned>>, <<>> before the call
\* ------------------------------------------------------------------------
GenreList == <<Romance, Drama, <<"C","o","m","e","d","y">>, <<"F","a","n","t","a","s","y">>,
               <<"S","c","h","o","o","l">>, <<"H","o","r","r","o","r">>>>

ScoreDescriptions == {-1, 0, 20, 21, 100, 101, 200, 201}
ScoreGenres == {None} \cup {Some(SubSeq(GenreList, 1, k)) : k \in 0..Len(GenreList)}
ScorePosters == {-1, 10, 11}
ScoreYears == {-1, 2020}
ScoreRatings == {Undef, NaNValue, Num(-100), Num(0), Num(860)}

ScoreRecords ==
  {Scraped("hmm", 1, rating, "", Undef, description, poster, <<>>, genres, year, -1) :
     rating \in ScoreRatings, description \in ScoreDescriptions,
     poster \in ScorePosters, genres \in ScoreGenres, year \in ScoreYears}

InitScore ==
  /\ aggregated = <<>>
  /\ result = <<>>
  /\ pc = "score"
  /\ processed = 0
  /\ series \in ScoreRecords
  /\ seriesAfter = series
  /\ wa = [fn |-> "", out |-> <<>>]

CallMetadataScore ==
  /\ pc = "score"
  /\ wa.fn = ""
  /\ wa' = [fn |-> "calculateMetadataScore", out |-> <<calculateMetadataScore(series)>>]
  /\ UNCHANGED <<aggregated, result, pc, processed, series, seriesAfter>>

NextScore == CallMetadataScore

SpecScore == InitScore /\ [][NextScore]_vars

\* ------------------------------------------------------------------------
\* calculateWeightedAverage on its own
\*   wa.breakdown   the argument
\*   wa.out         the value returned, -1 before the call
\* ------------------------------------------------------------------------
RawValues == {Undef, NaNValue, StrValue, Num(-100), Num(450), Num(600), Num(850), Num(860),
              Num(864), Num(1100), Num(8500), Num(99900), Num(500000)}
RatingTypes == {"", "direct", "percentage", "stars", "trending", "views"}

\* entries whose normalized value is there already: three as
\* createRatingBreakdown stores them, one that no longer matches its raw value
CachedEntries == {[Entry(Num(900), "trending") EXCEPT !.normalized = Num(750)],
                  [Entry(Num(500000), "views") EXCEPT !.normalized = Num(550)],
                  [Entry(Num(8500), "percentage") EXCEPT !.normalized = Num(850)],
                  [Entry(Num(860), "direct") EXCEPT !.normalized = Num(200)]}

EntryInputs ==
  {NullEntry} \cup CachedEntries
    \cup {Entry(raw, type) : raw \in RawValues, type \in RatingTypes}
ThirdEntryInputs == {NullEntry, Entry(Num(500000), "views"), Entry(Num(900), "trending")}

\* a breakdown over hmm, hse and htv; a provider may be missing from it
BreakdownOf(hmm, hse, htv) ==
  [p \in {q \in {"hmm", "hse", "htv"} :
            \/ q = "hmm" /\ hmm.has
            \/ q = "hse" /\ hse.has
            \/ q = "htv" /\ htv.has} |->
     IF p = "hmm" THEN hmm.v ELSE IF p = "hse" THEN hse.v ELSE htv.v]

OptionalOf(S) == {None} \cup {Some(x) : x \in S}

BreakdownInputs ==
  {BreakdownOf(hmm, hse, htv) : hmm \in OptionalOf(EntryInputs),
                                hse \in OptionalOf(EntryInputs),
                                htv \in OptionalOf(ThirdEntryInputs)}

InitRating ==
  /\ aggregated = <<>>
  /\ result = <<>>
  /\ pc = "rating"
  /\ processed = 0
  /\ series = NoSeries
  /\ seriesAfter = NoSeries
  /\ wa \in [breakdown : BreakdownInputs, out : {-1}]

CallWeightedAverage ==
  /\ pc = "rating"
  /\ wa.out = -1
  /\ wa' = [wa EXCEPT !.out = calculateWeightedAverage(wa.breakdown)]
  /\ UNCHANGED <<aggregated, result, pc, processed, series, seriesAfter>>

NextRating == CallWeightedAverage

SpecRating == InitRating /\ [][NextRating]_vars

\* ------------------------------------------------------------------------
\* Number arithmetic (IEEE 754 binary64, round to nearest, ties to even)
\* A non-negative Number is [bits, exp]: the binary integer written by bits
\* (most significant first, <<>> is 0) times 2^exp. Sums, products and
\* quotients are computed exactly on digits of DigitBits bits and then
\* rounded to Precision bits.
\* ------------------------------------------------------------------------
Precision == 53
DigitBits == 8
DigitBase == 2 ^ DigitBits
GuardBits == Precision + 11

zeros(n) == <<>> \o [i \in 1..n |-> 0]

stripZeros(bits) ==
  LET ones == {i \in 1..Len(bits) : bits[i] = 1}
  IN IF ones = {} THEN <<>>
     ELSE SubSeq(bits, CHOOSE i \in ones : \A j \in ones : i <= j, Len(bits))

RECURSIVE bitsOf(_)
bitsOf(n) == IF n = 0 THEN <<>> ELSE Append(bitsOf(n \div 2), n % 2)

RECURSIVE valueOf(_)
valueOf(bits) ==
  IF bits = <<>> THEN 0
  ELSE 2 * valueOf(SubSeq(bits, 1, Len(bits) - 1)) + bits[Len(bits)]

\* the digits of a binary integer, most significant first
digitsOf(bits) ==
  LET n == (Len(bits) + DigitBits - 1) \div DigitBits
      padded == zeros(n * DigitBits - Len(bits)) \o bits
  IN <<>> \o [k \in 1..n |->
               valueOf(SubSeq(padded, (k - 1) * DigitBits + 1, k * DigitBits))]

bitsOfDigits(digits) ==
  <<>> \o [i \in 1..(Len(digits) * DigitBits) |->
             LET full == bitsOf(digits[((i - 1) \div DigitBits) + 1])
                 at == (((i - 1) % DigitBits) + 1) - (DigitBits - Len(full))
             IN IF at >= 1 THEN full[at] ELSE 0]

\* a + b + carry on digit sequences of the same length
RECURSIVE addDigits(_, _, _)
addDigits(a, b, carry) ==
  IF a = <<>> THEN (IF carry > 0 THEN <<carry>> ELSE <<>>)
  ELSE LET n == Len(a)
           s == a[n] + b[n] + carry
       IN Append(addDigits(SubSeq(a, 1, n - 1), SubSeq(b, 1, n - 1), s \div DigitBase),
                 s % DigitBase)

addBits(a, b) ==
  LET n == Max2(Len(a), Len(b))
  IN bitsOfDigits(addDigits(digitsOf(zeros(n - Len(a)) \o a),
                            digitsOf(zeros(n - Len(b)) \o b), 0))

\* a * c + carry for a small integer c
RECURSIVE timesDigits(_, _, _)
timesDigits(a, c, carry) ==
  IF a = <<>> THEN (IF carry > 0 THEN <<carry>> ELSE <<>>)
  ELSE LET n == Len(a)
           p == a[n] * c + carry
       IN Append(timesDigits(SubSeq(a, 1, n - 1), c, p \div DigitBase), p % DigitBase)

\* long division by a small integer d: the quotient and the remainder
RECURSIVE divideDigits(_, _)
divideDigits(a, d) ==
  IF a = <<>> THEN [q |-> <<>>, r |-> 0]
  ELSE LET n == Len(a)
           up == divideDigits(SubSeq(a, 1, n - 1), d)
           r == up.r * DigitBase + a[n]
       IN [q |-> Append(up.q, r \div d), r |-> r % d]

\* the Number nearest to bits * 2^exp, plus something below the last bit
\* when sticky
roundBits(bits, exp, sticky) ==
  LET b == stripZeros(bits)
      n == Len(b)
  IN IF n <= Precision THEN [bits |-> b, exp |-> exp]
     ELSE LET keep == SubSeq(b, 1, Precision)
              guard == b[Precision + 1]
              rest == sticky \/ \E i \in (Precision + 2)..n : b[i] = 1
              up == guard = 1 /\ (rest \/ keep[Precision] = 1)
          IN [bits |-> IF up THEN stripZeros(addBits(keep, <<1>>)) ELSE keep,
              exp |-> exp + (n - Precision)]

NumberZero == [bits |-> <<>>, exp |-> 0]

\* x + y
numberAdd(x, y) ==
  LET e == Min2(x.exp, y.exp)
  IN roundBits(addBits(x.bits \o zeros(x.exp - e), y.bits \o zeros(y.exp - e)), e, FALSE)

\* x * c for a small integer c
numberTimes(x, c) ==
  roundBits(bitsOfDigits(timesDigits(digitsOf(x.bits), c, 0)), x.exp, FALSE)

\* x / d for a small integer d > 0
numberOver(x, d) ==
  LET qr == divideDigits(digitsOf(x.bits \o zeros(GuardBits)), d)
  IN roundBits(bitsOfDigits(qr.q), x.exp - GuardBits, qr.r # 0)

\* the Number nearest to h / 100
numberOfHundredths(h) == numberOver([bits |-> bitsOf(h), exp |-> 0], 100)

\* Math.round(x) as an integer: halves go up
MathRound(x) ==
  LET b == stripZeros(x.bits)
      n == Len(b) + x.exp
  IN IF b = <<>> \/ n < 0 THEN 0
     ELSE IF x.exp >= 0 THEN valueOf(b \o zeros(x.exp))
     ELSE valueOf(SubSeq(b, 1, n)) + b[n + 1]

\* ------------------------------------------------------------------------
\* calculateWeightedAverage step by step, in Number arithmetic, called twice:
\* on a breakdown and on the same breakdown with its keys in another order
\*   wa.calls         the two arguments as Object.entries lists them
\*   wa.i             the entry the loop is at
\*   wa.weightedSum   the sum so far
\*   wa.totalWeight   the weight so far
\*   wa.out           the values returned so far
\* ------------------------------------------------------------------------
\* one iteration of the loop of calculateWeightedAverage
accumulate(sums, provider, ratingInfo) ==
  LET normalized == resolveEntry(ratingInfo)
      weight == providerWeight(provider)
  IN IF ~IsDefined(normalized) THEN sums
     ELSE [weightedSum |->
             numberAdd(sums.weightedSum,
                       numberTimes(numberOfHundredths(normalized.v), weight)),
           totalWeight |-> sums.totalWeight + weight]

\* what calculateWeightedAverage returns after the loop, in hundredths
averageOf(sums) ==
  IF sums.totalWeight = 0 THEN DEFAULT_RATING
  ELSE 10 * MathRound(numberTimes(numberOver(sums.weightedSum, sums.totalWeight), 10))

OrderProviders == <<"hmm", "hse", "htv">>

OrderEntries ==
  {NullEntry, Entry(Num(30), "direct"), Entry(Num(605), "direct"),
   Entry(Num(860), "direct"), Entry(Num(500000), "views")}

\* Object.entries of a breakdown whose keys were inserted in the order perm
entriesOf(breakdown, perm) ==
  [k \in 1..Len(perm) |-> <<OrderProviders[perm[k]], breakdown[OrderProviders[perm[k]]]>>]

KeyOrders == {perm \in [1..3 -> 1..3] : \A i, j \in 1..3 : i # j => perm[i] # perm[j]}

NoSums == [weightedSum |-> NumberZero, totalWeight |-> 0]

InitOrder ==
  /\ aggregated = <<>>
  /\ result = <<>>
  /\ pc = "order"
  /\ processed = 0
  /\ series = NoSeries
  /\ seriesAfter = NoSeries
  /\ \E breakdown \in [{"hmm", "hse", "htv"} -> OrderEntries], perm \in KeyOrders :
       wa = [calls |-> <<entriesOf(breakdown, <<1, 2, 3>>), entriesOf(breakdown, perm)>>,
             i |-> 1, sums |-> NoSums, out |-> <<>>]

currentCall == wa.calls[Len(wa.out) + 1]

IterateEntry ==
  /\ pc = "order"
  /\ Len(wa.out) < 2
  /\ wa.i <= Len(currentCall)
  /\ wa' = [wa EXCEPT !.sums = accumulate(wa.sums, currentCall[wa.i][1], currentCall[wa.i][2]),
                      !.i = wa.i + 1]
  /\ UNCHANGED <<aggregated, result, pc, processed, series, seriesAfter>>

ReturnAverage ==
  /\ pc = "order"
  /\ Len(wa.out) < 2
  /\ wa.i > Len(currentCall)
  /\ wa' = [wa EXCEPT !.out = Append(wa.out, averageOf(wa.sums)),
                      !.i = 1,
                      !.sums = NoSums]
  /\ UNCHANGED <<aggregated, result, pc, processed, series, seriesAfter>>

NextOrder == IterateEntry \/ ReturnAverage

SpecOrder == InitOrder /\ [][NextOrder]_vars

\* ========================================================================
\* Properties
\* ========================================================================
prefixOf(s) == getPrefixFromId(s.id)

\* the accumulator after a first-seen series a and then a series b
AfterTwo(a, b) == loopBody(<<seedSeries(a)>>, b).acc

\* ------------------------------------------------------------------------
\* C1: the returned catalog is deduplicated: no two distinct records of the
\* returned list satisfy isDuplicate with each other, also after a merge
\* replaced an accumulated record's name by a richer incoming record's name.
C1_ReturnedCatalogDeduplicated ==
  pc = "done" =>
    \A i, j \in 1..Len(result) :
      i # j => ~duplicateTable[result[i].name][result[j].name]

\* ------------------------------------------------------------------------
\* C2: an unrated provider never contributes to a rating: when a record with
\* neither rating nor viewCount is merged, in either arrival order, with a
\* duplicate that carries a usable rating, the merged ratingBreakdown has no
\* entry for the unrated record's prefix and the merged rating is the
\* weighted average of the rated provider only.
IsUnrated(s) == ~IsDefined(s.rating) /\ ~IsDefined(s.viewCount)

HasUsableRating(s) ==
  LET b == seedBreakdown(s, prefixOf(s))
  IN \E p \in DOMAIN b : IsDefined(averageEntry(b[p]).normalized)

C2_UnratedNeverContributes ==
  (processed = 2 /\ Len(aggregated) = 1) =>
    \A u, r \in InputRecords :
      (/\ series \in {u, r}
       /\ IsUnrated(u)
       /\ HasUsableRating(r)
       /\ prefixOf(u) # prefixOf(r)
       /\ \/ series = r /\ aggregated = AfterTwo(u, r)
          \/ series = u /\ aggregated = AfterTwo(r, u))
      => /\ prefixOf(u) \notin DOMAIN aggregated[1].ratingBreakdown.v
         /\ aggregated[1].rating = seedSeries(r).rating

\* ------------------------------------------------------------------------
\* C3: every returned record, seeded only or merged, has metadataScore equal
\* to calculateMetadataScore of its own current fields.
C3_ScoreMatchesCurrentFields ==
  pc = "done" =>
    \A i \in 1..Len(result) :
      result[i].metadataScore = calculateMetadataScore(result[i])

\* ------------------------------------------------------------------------
\* C4: the provider catalogs are consumed read-only: a consumed record has
\* afterwards exactly the fields and values it was handed in with.
C4_InputsReadOnly == seriesAfter = series

\* ------------------------------------------------------------------------
\* C5: the returned list is the accumulator ordered by metadataScore
\* descending, then number of providers (default 1) descending, then name
\* ascending; records equal on all three keys keep their accumulator order.
C5_ProviderCount(r) == IF r.providers.has THEN Len(r.providers.v) ELSE 1

C5_SameKeys(a, b) ==
  /\ a.metadataScore = b.metadataScore
  /\ C5_ProviderCount(a) = C5_ProviderCount(b)
  /\ localeCompare(a.name, b.name) = 0

C5_InOrder(a, b) ==
  \/ a.metadataScore > b.metadataScore
  \/ /\ a.metadataScore = b.metadataScore
     /\ C5_ProviderCount(a) > C5_ProviderCount(b)
  \/ /\ a.metadataScore = b.metadataScore
     /\ C5_ProviderCount(a) = C5_ProviderCount(b)
     /\ localeCompare(a.name, b.name) <= 0

C5_SortedAndStable ==
  pc = "done" =>
    /\ Len(result) = Len(aggregated)
    /\ \A i, j \in 1..Len(result) : i < j => C5_InOrder(result[i], result[j])
    /\ \E perm \in Permutations(1..Len(result)) :
         /\ \A i \in 1..Len(result) : result[i] = aggregated[perm[i]]
         /\ \A i, j \in 1..Len(result) :
              (i < j /\ C5_SameKeys(result[i], result[j])) => perm[i] < perm[j]

\* two records of equal metadataScore were discovered with the one-provider
\* record first and are returned with the two-provider record first
C5_TwoProvidersFirst ==
  /\ pc = "done"
  /\ Len(result) >= 2
  /\ result[1].metadataScore = result[2].metadataScore
  /\ Len(result[1].providers.v) = 2
  /\ Len(result[2].providers.v) = 1
  /\ aggregated[1] = result[2]

\* two different records that tie on score, provider count and name are
\* returned in the order of their discovery
C5_TieKeepsOrder ==
  /\ pc = "done"
  /\ Len(result) = 2
  /\ C5_SameKeys(result[1], result[2])
  /\ result[1] # result[2]
  /\ result = aggregated

\* ------------------------------------------------------------------------
\* C6: every returned record has rating equal to the weighted-average
\* function applied to its final ratingBreakdown.
C6_RatingIsWeightedAverage ==
  pc = "done" =>
    \A i \in 1..Len(result) :
      result[i].rating = Num(calculateWeightedAverage(result[i].ratingBreakdown.v))

\* ------------------------------------------------------------------------
\* C7: the value a breakdown entry contributes to the rating computed while
\* seeding and merging is the table value of its type: direct clamp(raw),
\* percentage clamp(raw / 10), stars clamp(raw / 5 * 10), trending
\* min(7.5, clamp(raw)), views the view-count rule.
C7_Clamp(x) == Max2(0, Min2(1000, x))

C7_TableValue(raw, type) ==
  IF ~IsNumber(raw) THEN Undef
  ELSE CASE type = "percentage" -> Num(C7_Clamp(raw.v \div 10))
         [] type = "stars" -> Num(C7_Clamp(raw.v * 2))
         [] type = "trending" -> Num(Min2(750, C7_Clamp(raw.v)))
         [] type = "views" -> normalizeViewCount(raw)
         [] OTHER -> Num(C7_Clamp(raw.v))

\* the breakdown with every entry's table value as its normalized value
C7_TableBreakdown(b) ==
  LET rated == {p \in DOMAIN b :
                  ~b[p].nul /\ IsDefined(C7_TableValue(b[p].raw, TypeOrDirect(b[p].type)))}
  IN [p \in rated |->
        [b[p] EXCEPT !.normalized = C7_TableValue(b[p].raw, TypeOrDirect(b[p].type))]]

C7_ContributionsFollowTable ==
  \A i \in 1..Len(aggregated) :
    aggregated[i].rating =
      Num(calculateWeightedAverage(C7_TableBreakdown(aggregated[i].ratingBreakdown.v)))

\* ------------------------------------------------------------------------
\* C8: two records of different providers with equal normalized names give
\* exactly one returned record whose providers hold both prefixes; when one
\* of them is an hmm record with a direct rating whose genres include its
\* own studio name, the merged genres exclude that studio name.
C8_GenresRepeatStudio(s) ==
  /\ prefixOf(s) = "hmm"
  /\ IsNumber(s.rating) /\ TypeOrDirect(s.ratingType) = "direct"
  /\ s.studio # <<>> /\ s.genres.has
  /\ \E k \in 1..Len(s.genres.v) : toLowerCase(s.genres.v[k]) = toLowerCase(s.studio)

C8_MergedOnceStudioFiltered ==
  (pc = "done" /\ processed = 2) =>
    \A a, b \in InputRecords :
      (/\ series = b
       /\ prefixOf(a) # prefixOf(b)
       /\ normalizeName(a.name) = normalizeName(b.name)
       /\ aggregated = AfterTwo(a, b))
      => /\ Len(result) = 1
         /\ Includes(result[1].providers.v, prefixOf(a))
         /\ Includes(result[1].providers.v, prefixOf(b))
         /\ \A x \in {a, b} :
              C8_GenresRepeatStudio(x) =>
                \A k \in 1..Len(result[1].genres.v) :
                  toLowerCase(result[1].genres.v[k]) # toLowerCase(x.studio)

\* ------------------------------------------------------------------------
\* C9: calculateWeightedAverage returns sum(normalized * weight) /
\* sum(weight) over the usable entries, rounded to one decimal, with weight
\* 5 for hmm and 1 for every other provider; with an hmm direct rating h and
\* one other usable rating v # h the result is within half a rounding step
\* of (5h + v) / 6, so its distance from h is at most a sixth of the gap
\* between v and h plus 0.05.
C9_Providers == {"hmm", "hse", "htv"}
C9_Weight(p) == IF p = "hmm" THEN 5 ELSE 1
C9_Usable(b, p) == p \in DOMAIN b /\ IsDefined(resolveEntry(b[p]))
C9_Value(b, p) == IF C9_Usable(b, p) THEN resolveEntry(b[p]).v ELSE 0
C9_Share(b, p) == IF C9_Usable(b, p) THEN C9_Weight(p) ELSE 0
C9_Sum(b) ==
  C9_Value(b, "hmm") * C9_Share(b, "hmm") + C9_Value(b, "hse") * C9_Share(b, "hse")
    + C9_Value(b, "htv") * C9_Share(b, "htv")
C9_Weights(b) == C9_Share(b, "hmm") + C9_Share(b, "hse") + C9_Share(b, "htv")
C9_Abs(x) == IF x < 0 THEN -x ELSE x

\* an hmm direct rating and exactly one other usable rating, of another value
C9_HmmAndOneOther(b, other) ==
  /\ other \in {"hse", "htv"}
  /\ C9_Usable(b, "hmm") /\ TypeOrDirect(b["hmm"].type) = "direct"
  /\ C9_Usable(b, other)
  /\ \A p \in C9_Providers \ {"hmm", other} : ~C9_Usable(b, p)
  /\ C9_Value(b, other) # C9_Value(b, "hmm")

C10_UsableValues(b) == {resolveEntry(b[p]).v : p \in usableProviders(b)}

C11_OrderIndependent == Len(wa.out) = 2 => wa.out[1] = wa.out[2]

\* ------------------------------------------------------------------------
\* C12: in the weighted average an entry whose raw value is non-numeric, NaN
\* or negative resolves to null whatever its type: it is not among the
\* providers that contribute, and the result is the one the breakdown gives
\* without the entry (no weight and no value added, no rating of 0 counted).
C12_InvalidRaw(ratingInfo) ==
  /\ ~ratingInfo.nul
  /\ ~IsDefined(ratingInfo.normalized)
  /\ \/ ratingInfo.raw.t \in {"nan", "str"}
     \/ IsNumber(ratingInfo.raw) /\ ratingInfo.raw.v < 0

C12_Without(b, p) == [q \in DOMAIN b \ {p} |-> b[q]]

C12_InvalidRawExcluded ==
  wa.out # -1 =>
    \A p \in DOMAIN wa.breakdown :
      C12_InvalidRaw(wa.breakdown[p]) =>
        /\ p \notin usableProviders(wa.breakdown)
        /\ wa.out = calculateWeightedAverage(C12_Without(wa.breakdown, p))

\* ------------------------------------------------------------------------
\* C13: the result of calculateWeightedAverage depends only on the raw value
\* and the type of each entry: it is the result for the same breakdown with
\* every stored normalized value removed.
C13_RawAndTypeOnly(b) == [p \in DOMAIN b |-> [b[p] EXCEPT !.normalized = Undef]]

C13_NormalizedIsOnlyACache ==
  wa.out # -1 => wa.out = calculateWeightedAverage(C13_RawAndTypeOnly(wa.breakdown))

\* ------------------------------------------------------------------------
\* C14: merging is idempotent on a secondary already incorporated:
\* mergeSeries(mergeSeries(a, b), b) has the rating and the set of genres of
\* mergeSeries(a, b), and its breakdown has no provider the first merge did
\* not have.
C14_GenreSet(s) == IF s.genres.has THEN {s.genres.v[i] : i \in 1..Len(s.genres.v)} ELSE {}

C14_MergeIdempotent ==
  (pc = "merge" /\ processed = 2) =>
    /\ aggregated[1].rating = result[1].rating
    /\ C14_GenreSet(aggregated[1]) = C14_GenreSet(result[1])
    /\ DOMAIN aggregated[1].ratingBreakdown.v = DOMAIN result[1].ratingBreakdown.v

\* ------------------------------------------------------------------------
\* C15: isDuplicate is symmetric: isDuplicate(a, b) = isDuplicate(b, a).
C15_IsDuplicateSymmetric ==
  wa.fn = "isDuplicate" =>
    wa.out[1] = isDuplicate([name |-> wa.b], [name |-> wa.a])

\* a nine-character and a ten-character name one edit apart, in both orders
C15_DifferentLengthsDuplicate ==
  /\ wa.fn = "isDuplicate"
  /\ wa.a = NameNightShort
  /\ wa.b = NameNight
  /\ wa.out[1] = TRUE

\* ------------------------------------------------------------------------
\* C16: isDuplicate(x, y) is true exactly when the normalized names are
\* equal or (maxLen - levenshtein(nx, ny)) / maxLen >= 0.90, maxLen being the
\* longer normalized length; a similarity of exactly 0.90 counts.
C16_MaxLen(nx, ny) == Max2(Len(nx), Len(ny))

C16_Similar(nx, ny) ==
  10 * (C16_MaxLen(nx, ny) - levenshteinDistance(nx, ny)) >= 9 * C16_MaxLen(nx, ny)

C16_EqualOrNinetyPercent ==
  wa.fn = "isDuplicate" =>
    LET nx == normalizeName(wa.a)
        ny == normalizeName(wa.b)
    IN wa.out[1] = (nx = ny \/ C16_Similar(nx, ny))

\* one edit in ten characters is a duplicate
C16_OneEditInTen ==
  /\ wa.fn = "isDuplicate"
  /\ wa.a = NameNight
  /\ wa.b = NameNightOneEdit
  /\ Len(normalizeName(wa.a)) = 10
  /\ levenshteinDistance(normalizeName(wa.a), normalizeName(wa.b)) = 1
  /\ wa.out[1] = TRUE

\* two edits in ten characters is not
C16_TwoEditsInTen ==
  /\ wa.fn = "isDuplicate"
  /\ wa.a = NameNight
  /\ wa.b = NameNightTwoEdits
  /\ levenshteinDistance(normalizeName(wa.a), normalizeName(wa.b)) = 2
  /\ wa.out[1] = FALSE

\* ------------------------------------------------------------------------
\* C17: similarity(x, x) = 1.0 for every string x, similarity("", "") = 1.0,
\* and every result lies in [0, 1].
C17_SimilarityRange ==
  wa.fn = "similarity" =>
    /\ wa.out[1].den > 0
    /\ 0 <= wa.out[1].num
    /\ wa.out[1].num <= wa.out[1].den
    /\ wa.a = wa.b => wa.out[1].num = wa.out[1].den

\* two strings with no character in common: similarity 0
C17_NothingInCommon ==
  /\ wa.fn = "similarity"
  /\ wa.a = NameFoo
  /\ wa.b = NameNight
  /\ wa.out[1].num = 0

\* the empty strings: similarity 1
C17_EmptyStrings ==
  /\ wa.fn = "similarity"
  /\ wa.a = <<>>
  /\ wa.b = <<>>
  /\ wa.out[1].num = wa.out[1].den

\* ------------------------------------------------------------------------
\* C18: normalizeRating clamps to the 0-10 scale: for type direct a value
\* above 10 gives 10 and a value below 0 gives 0; percentage gives the
\* clamped value / 10 and stars the clamped value / 5 * 10; every result
\* that is not null is a number within [0, 10].
C18_Clamp(x, top) == IF x < 0 THEN 0 ELSE IF x > top THEN top ELSE x

C18_ClampsToScale ==
  wa.fn = "normalizeRating" =>
    /\ IsDefined(wa.out[1]) =>
         /\ IsNumber(wa.out[1])
         /\ 0 <= wa.out[1].v
         /\ wa.out[1].v <= 1000
    /\ (IsNumber(wa.value) /\ wa.type = "direct") =>
         wa.out[1] = Num(C18_Clamp(wa.value.v, 1000))
    /\ (IsNumber(wa.value) /\ wa.type = "percentage") =>
         /\ IsNumber(wa.out[1])
         /\ 10 * wa.out[1].v = C18_Clamp(wa.value.v, 10000)
    /\ (IsNumber(wa.value) /\ wa.type = "stars") =>
         wa.out[1] = Num(C18_Clamp(2 * wa.value.v, 1000))

\* normalizeRating(11, 'direct') = 10
C18_ElevenIsTen ==
  /\ wa.fn = "normalizeRating"
  /\ wa.type = "direct"
  /\ wa.value = Num(1100)
  /\ wa.out[1] = Num(1000)

\* normalizeRating(-1, 'direct') = 0
C18_MinusOneIsZero ==
  /\ wa.fn = "normalizeRating"
  /\ wa.type = "direct"
  /\ wa.value = Num(-100)
  /\ wa.out[1] = Num(0)

\* ------------------------------------------------------------------------
\* C19: normalizeViewCount returns null for every view count below 1000 and
\* a number no greater than 7.0 for every view count of 1000 or more, and
\* above the threshold the result does not decrease as the view count grows.
C19_ViewCounts == {x \in NormalizerValues : IsNumber(x) /\ x.v >= 100000}

C19_AtThreshold ==
  /\ wa.fn = "normalizeViewCount"
  /\ wa.value = Num(100000)
  /\ wa.out[1] = Num(450)

C19_Capped ==
  /\ wa.fn = "normalizeViewCount"
  /\ wa.value = Num(100000000)
  /\ wa.out[1] = Num(700)

\* ------------------------------------------------------------------------
\* C20: the rating of every record aggregateCatalogs returns is a number
\* within [0, 10], whatever the raw ratings, the rating types and the view
\* counts of the inputs.
C20_ReturnedRatingsInScale ==
  pc = "done" =>
    \A i \in 1..Len(result) :
      /\ IsNumber(result[i].rating)
      /\ 0 <= result[i].rating.v
      /\ result[i].rating.v <= 1000

\* a returned record merged from a rating of 11 and a NaN rating: 10
C20_ElevenAndNaN ==
  /\ pc = "done"
  /\ \E i \in 1..Len(result) :
       /\ DOMAIN result[i].ratingBreakdown.v = {"hmm", "htv"}
       /\ result[i].ratingBreakdown.v["hmm"].raw = Num(1100)
       /\ result[i].ratingBreakdown.v["htv"].raw = NaNValue
       /\ result[i].rating = Num(1000)

\* a returned record rated -1 only: 0
C20_NegativeOnly ==
  /\ pc = "done"
  /\ \E i \in 1..Len(result) :
       /\ DOMAIN result[i].ratingBreakdown.v = {"hse"}
       /\ result[i].ratingBreakdown.v["hse"].raw = Num(-100)
       /\ result[i].rating = Num(0)

\* ------------------------------------------------------------------------
\* C21: calculateMetadataScore returns an integer between 0 and 13 for every
\* record.
C21_ScoreAtMost13 ==
  wa.fn = "calculateMetadataScore" => wa.out[1] \in 0..13

\* C21, as the code has it: the score is an integer between 0 and 14, the
\* sum of at most 5 for the description, 5 for the genres, 2 for the
\* poster, 1 for the year and 1 for the rating.
C21_ScoreAtMost14 ==
  wa.fn = "calculateMetadataScore" => wa.out[1] \in 0..14

\* a record with everything: a description over 200 characters, five
\* genres, a poster, a year and a positive rating
C21_FullRecordScores14 ==
  /\ wa.fn = "calculateMetadataScore"
  /\ series.description = 201
  /\ Len(series.genres.v) = 5
  /\ series.poster = 11
  /\ series.year = 2020
  /\ series.rating = Num(860)
  /\ wa.out[1] = 14

\* ------------------------------------------------------------------------
\* C22: empty input yields empty output, and a provider with an empty
\* catalog contributes nothing: the list returned is the one returned for
\* the same providers with the empty catalogs left out, and it is empty
\* when there is no provider or every catalog is empty.
RECURSIVE C22_SeriesOf(_)
C22_SeriesOf(catalogs) ==
  IF catalogs = <<>> THEN <<>> ELSE Head(catalogs) \o C22_SeriesOf(Tail(catalogs))

RECURSIVE C22_Accumulate(_, _)
C22_Accumulate(acc, list) ==
  IF list = <<>> THEN acc
  ELSE C22_Accumulate(loopBody(acc, Head(list)).acc, Tail(list))

C22_EmptyCatalogsContributeNothing ==
  (pc = "done" /\ "catalogs" \in DOMAIN wa) =>
    /\ result = sortCatalog(C22_Accumulate(<<>>, C22_SeriesOf(wa.catalogs)))
    /\ C22_SeriesOf(wa.catalogs) = <<>> => result = <<>>

\* an empty catalog between two providers that have series
C22_EmptyCatalogInBetween ==
  /\ pc = "done"
  /\ Len(wa.catalogs) = 3
  /\ wa.catalogs[1] # <<>>
  /\ wa.catalogs[2] = <<>>
  /\ wa.catalogs[3] # <<>>
  /\ Len(result) = 2

\* aggregateCatalogs([]) = []
C22_NoProviders ==
  /\ pc = "done"
  /\ wa.catalogs = <<>>
  /\ result = <<>>

\* ------------------------------------------------------------------------
\* C23: in every record aggregateCatalogs returns, the provider prefix
\* derived from the id (the lower-case letters before the first hyphen,
\* else "unknown") is an element of the providers of the record, also after
\* a merge that promoted the incoming record to primary.
C23_PrefixOfId(id) == IF id.prefix = "" THEN "unknown" ELSE id.prefix

C23_IdPrefixAmongProviders ==
  pc = "done" =>
    \A i \in 1..Len(result) :
      /\ result[i].providers.has
      /\ \E k \in 1..Len(result[i].providers.v) :
           result[i].providers.v[k] = C23_PrefixOfId(result[i].id)

\* the incoming record was promoted to primary: the returned record has its
\* id, and the providers of the record it replaced as well
C23_PromotedPrimary ==
  /\ pc = "done"
  /\ processed = 2
  /\ Len(result) = 1
  /\ result[1].id = series.id
  /\ result[1].providers.v = <<"hmm", "htv">>

\* the promoted record has an id without a prefix
C23_PromotedUnknown ==
  /\ pc = "done"
  /\ processed = 2
  /\ Len(result) = 1
  /\ result[1].id.prefix = ""
  /\ result[1].providers.v = <<"unknown", "hmm">>

\* ------------------------------------------------------------------------
\* C24: mergeSeries never overwrites a providerSlugs entry of the primary,
\* so in every record providerSlugs maps the prefix of the record's id to
\* the record's own id without its prefix.
C24_OwnSlugKept ==
  \A i \in 1..Len(aggregated) :
    LET r == aggregated[i]
        prefix == getPrefixFromId(r.id)
    IN /\ r.providerSlugs.has
       /\ prefix \in DOMAIN r.providerSlugs.v
       /\ r.providerSlugs.v[prefix] = slugOf(r.id)

\* ------------------------------------------------------------------------
\* C25: when both ratingBreakdown maps have an entry for a provider prefix,
\* mergeSeries keeps the entry of the primary: an entry of the secondary,
\* also one made of its standalone rating or view count, only fills a
\* prefix the primary lacks.
C25_Primary == IF swapsPrimary(wa.existing, series) THEN series ELSE wa.existing

C25_PrimaryEntriesKept ==
  (pc = "merge" /\ processed = 1 /\ C25_Primary.ratingBreakdown.has) =>
    \A p \in DOMAIN C25_Primary.ratingBreakdown.v :
      ~C25_Primary.ratingBreakdown.v[p].nul =>
        aggregated[1].ratingBreakdown.v[p] = C25_Primary.ratingBreakdown.v[p]

\* ------------------------------------------------------------------------
\* C26: the providers of a record list each contributing provider prefix
\* once, in the order in which the providers were discovered for the title:
\* after a merge they are the providers of the accumulator record, followed
\* by the prefix of the incoming record when it is new, also when the
\* incoming record was promoted to primary.
C26_Discovered ==
  LET before == wa.existing.providers.v
      incoming == getPrefixFromId(series.id)
  IN IF \E k \in 1..Len(before) : before[k] = incoming THEN before
     ELSE before \o <<incoming>>

C26_ProvidersInDiscoveryOrder ==
  (pc = "merge" /\ processed = 1 /\ wa.existing.providers.has) =>
    aggregated[1].providers.v = C26_Discovered

\* ------------------------------------------------------------------------
\* C27: after mergeSeries the genres of the result hold no value twice and
\* no entry equal to the studio of the result up to case, whichever of
\* genres and studio the two sides have.
C27_GenresCleaned ==
  (pc = "merge" /\ processed = 1 /\ aggregated[1].genres.has) =>
    LET genres == aggregated[1].genres.v
        studio == aggregated[1].studio
    IN /\ \A i, j \in 1..Len(genres) : genres[i] = genres[j] => i = j
       /\ studio # <<>> =>
            \A i \in 1..Len(genres) : toLowerCase(genres[i]) # toLowerCase(studio)

\* ------------------------------------------------------------------------
\* C28: in mergeSeries the incoming record becomes primary exactly when its
\* metadata score is strictly higher than that of the existing record: the
\* merged record has the incoming id and name then, and the existing id
\* and name otherwise, a tie included.
C28_StrictlyHigherScoreWins ==
  (pc = "merge" /\ processed = 1) =>
    LET existingScore == calculateMetadataScore(wa.existing)
        newScore == calculateMetadataScore(series)
    IN /\ newScore > existingScore =>
            /\ aggregated[1].id = series.id
            /\ aggregated[1].name = series.name
       /\ newScore <= existingScore =>
            /\ aggregated[1].id = wa.existing.id
            /\ aggregated[1].name = wa.existing.name

\* two records of different providers and titles with equal scores: the
\* existing one stays primary
C28_TieKeepsExisting ==
  /\ pc = "merge"
  /\ processed = 1
  /\ calculateMetadataScore(series) = calculateMetadataScore(wa.existing)
  /\ calculateMetadataScore(series) > 0
  /\ series.id.prefix # wa.existing.id.prefix
  /\ series.name # wa.existing.name
  /\ aggregated[1].id = wa.existing.id
  /\ aggregated[1].name = wa.existing.name

\* a strictly higher score: the incoming record is promoted
C28_HigherScorePromoted ==
  /\ pc = "merge"
  /\ processed = 1
  /\ calculateMetadataScore(series) > calculateMetadataScore(wa.existing)
  /\ series.id # wa.existing.id
  /\ aggregated[1].id = series.id

\* ------------------------------------------------------------------------
\* C29: each incoming record is merged into the first accumulated record
\* that isDuplicate matches, and no other entry and not the length of the
\* accumulator change; when nothing matches, one entry is appended and no
\* existing entry changes. The accumulator never shrinks and is not
\* reordered before the final sort.
C29_Matches(acc, s) == {i \in 1..Len(acc) : duplicateTable[acc[i].name][s.name]}

C29_StepKeepsFrame ==
  LET s == series'
      hits == C29_Matches(aggregated, s)
      first == CHOOSE i \in hits : \A j \in hits : i <= j
  IN IF hits = {}
     THEN /\ Len(aggregated') = Len(aggregated) + 1
          /\ \A i \in 1..Len(aggregated) : aggregated'[i] = aggregated[i]
          /\ aggregated'[Len(aggregated')].id = s.id
     ELSE /\ Len(aggregated') = Len(aggregated)
          /\ \A i \in 1..Len(aggregated) : i # first => aggregated'[i] = aggregated[i]
          /\ aggregated'[first] = mergeSeries(aggregated[first], s).merged

C29_FirstMatchOnly ==
  [][(pc = "loop" /\ processed' = processed + 1) => C29_StepKeepsFrame]_vars

\* the incoming title matches both accumulated records: the first took it,
\* the second is as it was seeded
C29_TwoMatchesFirstTaken ==
  /\ pc = "loop"
  /\ processed = 3
  /\ Len(aggregated) = 2
  /\ series.name = NameZ
  /\ aggregated[2].name = NameY
  /\ isDuplicate(aggregated[2], series)
  /\ Len(aggregated[1].providers.v) = 2
  /\ Len(aggregated[2].providers.v) = 1

\* ------------------------------------------------------------------------
\* normalizeName on its own
\*   wa.a, wa.b   two titles (<<>> stands for '', null and undefined, which
\*                the guard !name does not tell apart)
\*   wa.fn        the function called, "" before the call
\*   wa.out       <<normalizeName(a), normalizeName(b)>>, <<>> before the call
\* ------------------------------------------------------------------------
TitleFoo == <<"F","o","o">>
TitleFooBang == <<"F","o","o"," ","!">>
TitleFooBangTight == <<"F","o","o","!">>
TitleQueryTheFoo == <<"?"," ","T","h","e"," ","F","o","o">>
TitleTheFoo == <<"T","h","e"," ","F","o","o">>
TitleFooPadded == <<" "," ","F","o","o","\t"," ">>
TitleFooSeason == <<"F","o","o"," ","S","e","a","s","o","n"," ","2">>
TitleFooSeasonBang == <<"F","o","o"," ","S","e","a","s","o","n"," ","2"," ","!">>
TitleFooBar == <<"F","o","o"," ","-"," ","B","a","r",":"," ","A"," ","B">>

TitlePool == {<<>>, TitleFoo, TitleFooBang, TitleFooBangTight, TitleQueryTheFoo,
              TitleTheFoo, TitleFooPadded, TitleFooSeason, TitleFooSeasonBang,
              TitleFooBar}

InitTitles ==
  /\ aggregated = <<>>
  /\ result = <<>>
  /\ pc = "titles"
  /\ processed = 0
  /\ series = NoSeries
  /\ seriesAfter = NoSeries
  /\ wa \in [a : TitlePool, b : TitlePool, fn : {""}, out : {<<>>}]

CallNormalizeName ==
  /\ pc = "titles"
  /\ wa.fn = ""
  /\ wa' = [wa EXCEPT !.fn = "normalizeName",
                      !.out = <<normalizeName(wa.a), normalizeName(wa.b)>>]
  /\ UNCHANGED <<aggregated, result, pc, processed, series, seriesAfter>>

NextTitles == CallNormalizeName

SpecTitles == InitTitles /\ [][NextTitles]_vars

\* a title with its special characters taken out and the whitespace that
\* this leaves at the ends and in runs taken out with them
C30_WithoutPunctuation(t) == trim(collapseSpaces(stripSpecial(t)))

C30_Trimmed(s) == s = <<>> \/ (~IsSpace(s[1]) /\ ~IsSpace(s[Len(s)]))

\* C30: normalizeName returns a string without leading or trailing
\* whitespace, also when a stripped special character leaves a space at
\* either end; two titles that differ only by such punctuation normalize to
\* the same string; empty or null input gives the empty string.
C30_NormalizedNameTrimmed ==
  (pc = "titles" /\ wa.fn = "normalizeName") =>
     /\ C30_Trimmed(wa.out[1])
     /\ wa.a = <<>> => wa.out[1] = <<>>
     /\ C30_WithoutPunctuation(wa.a) = C30_WithoutPunctuation(wa.b)
          => wa.out[1] = wa.out[2]

\* the empty-input part on its own, and the result when nothing is exposed
C30_EmptyStaysEmpty ==
  (pc = "titles" /\ wa.fn = "normalizeName" /\ wa.a = <<>>) => wa.out[1] = <<>>

C30_ExposedSpaceKept ==
  /\ pc = "titles"
  /\ wa.fn = "normalizeName"
  /\ wa.a = TitleFooBang
  /\ wa.b = TitleFoo
  /\ wa.out = << <<"f","o","o"," ">>, <<"f","o","o">> >>

====
